---- MODULE Spec2Model ----
(***************************************************************************)
(* Model of model_analyzer's two run-config search engines:                *)
(*   RunConfigGenerator            (config/generate/run_config_generator)  *)
(*   UndirectedRunConfigGenerator  (undirected_run_config_generator)       *)
(* Python generators are modelled by an explicit stack of frames, one per  *)
(* active _generate_subset call, each with its own program counter.        *)
(***************************************************************************)
EXTENDS Integers, Sequences, FiniteSets, TLC

VARIABLES
    cls,                    \* which class is constructed
    models,                 \* the models handed to the constructor, [0..N-1 -> record]
    status,                 \* "new", "failed", "ready", "running", "suspended", "exhausted", "error"
    err,                    \* the exception that escaped, "none" if none
    triton_env,             \* self._triton_env
    \* ---- RunConfigGenerator
    curr_model_run_configs, \* self._curr_model_run_configs
    curr_results,           \* self._curr_results
    curr_generators,        \* self._curr_generators (instance ids, 0 is None)
    default_returned,       \* self._default_returned
    frames,                 \* the active _generate_subset frames, outermost first
    heap,                   \* the live ModelRunConfigGenerator instances, by id
    next_id,                \* the id of the next instance created
    last_send,              \* the last call of a sub-enumerator's set_last_results
    last_op,                \* the last statement executed by the generator
    window,                 \* per depth: the run number at which its current choice was taken
    \* ---- both
    produced,               \* the RunConfigs yielded so far
    fed,                    \* set_last_results was called since the last yield
    supplied,               \* the measurements supplied since depth 0 last advanced
    \* ---- UndirectedRunConfigGenerator
    coordinate_data,        \* self._coordinate_data: coordinate -> visit count, throughput
    current_coordinate,     \* self._current_coordinate
    coordinate_to_measure,  \* self._coordinate_to_measure
    neighborhood,           \* self._neighborhood
    generator_started,      \* self._generator_started
    done,                   \* self._done
    last_measurements,      \* the argument of the last set_last_results call
    feedback_count,         \* per coordinate: feedbacks received for its RunConfigs
    valid_fed,              \* per coordinate: a valid measurement was fed back for it
    last_step               \* what the last _step did, and the state it started from

rcg_vars == <<curr_model_run_configs, curr_results, curr_generators, default_returned,
              frames, heap, next_id, last_send, last_op, window, supplied>>
urcg_vars == <<coordinate_data, current_coordinate, coordinate_to_measure, neighborhood,
               generator_started, done, last_measurements, feedback_count, valid_fed,
               last_step>>
vars == <<cls, models, status, err, triton_env, rcg_vars, urcg_vars, produced, fed>>

\* ------------------------------------------------------------------ bounds
MaxModels == 2
MaxConfigs == 2
MaxIndex == 2
MaxThroughput == 2
MaxProduced == 6

Envs == {"envA", "envB"}
None == [none |-> TRUE]

Indexes(n) == 0 .. (n - 1)
num_models == Cardinality(DOMAIN models)

ModelSpecs(n) == [Indexes(n) -> [env : Envs, num_configs : 0 .. MaxConfigs]]

\* ------------------------------------------------- determine_triton_server_env
\* Mutant: the loop over the models is dropped, the first model's environment wins.
determine_triton_server_env_nocheck(ms) ==
    [raised |-> FALSE, env |-> ms[0].env]

\* run_config_generator.py 104-117: the first model's environment, compared with
\* every model's; any difference raises TritonModelAnalyzerException.
determine_triton_server_env(ms) ==
    IF \E i \in DOMAIN ms : ms[i].env # ms[0].env
    THEN [raised |-> TRUE, env |-> ms[0].env]
    ELSE [raised |-> FALSE, env |-> ms[0].env]

\* ------------------------------------------- ModelRunConfigGenerator (collaborator)
\* The number of configurations a sub-enumerator yields: one when restricted to
\* defaults, the model's count of legal configurations otherwise.
MrcgLimit(g) == IF g.default_only THEN 1 ELSE models[g.model].num_configs

MrcgNew(index, default_only) ==
    [model |-> index, default_only |-> default_only, pos |-> 0, n_results |-> 0]

\* The configuration get_configs() yields at position pos (0-based).
MrcgConfig(g) ==
    [model |-> g.model, is_default |-> g.default_only, choice |-> g.pos]

\* ------------------------------------------------------------ RunConfig
\* Mutant: the model run configs are added in reverse model order.
make_run_config_reversed ==
    [env |-> triton_env,
     mrcs |-> [index \in Indexes(num_models) |->
                  curr_model_run_configs[num_models - 1 - index]]]

\* run_config_generator.py 94-98
make_run_config ==
    [env |-> triton_env,
     mrcs |-> [index \in Indexes(num_models) |-> curr_model_run_configs[index]]]

\* ------------------------------------------------------------ frames
Top == frames[Len(frames)]
SetTop(f) == [frames EXCEPT ![Len(frames)] = f]
Frame(index, default_only) ==
    [index |-> index, default_only |-> default_only, mrcg |-> 0, pc |-> "start"]

\* Mutant: the first traversal is unrestricted too.
FirstDefaultOnly_unrestricted == FALSE

\* run_config_generator.py 72: the first traversal is restricted to defaults
FirstDefaultOnly == TRUE

\* Mutant: the second traversal is restricted to defaults again.
SecondDefaultOnly_restricted == TRUE

\* run_config_generator.py 74: the second is not
SecondDefaultOnly == FALSE

\* Mutant: the RunConfig is assembled at the first level instead of the last.
IsDeepest_first(index) == index = 0

\* run_config_generator.py 87
IsDeepest(index) == index = num_models - 1

Live(fs, gens) == {fs[i].mrcg : i \in 1 .. Len(fs)} \cup {gens[i] : i \in DOMAIN gens}
Restrict(h, ids) == [id \in (DOMAIN h) \cap ids |-> h[id]]

\* ------------------------------------------------------------------ Init
InitRCGFields(n) ==
    /\ curr_model_run_configs = [i \in Indexes(n) |-> None]
    /\ curr_results = [i \in Indexes(n) |-> <<>>]
    /\ curr_generators = [i \in Indexes(n) |-> 0]
    /\ default_returned = FALSE
    /\ frames = <<>>
    /\ heap = <<>>
    /\ next_id = 1
    /\ last_send = [index |-> -1, mrcg |-> 0, results |-> <<>>]
    /\ last_op = [op |-> "none", index |-> -1, mrcg |-> 0]
    /\ window = [i \in Indexes(n) |-> 0]
    /\ supplied = <<>>

InitURCGFields ==
    /\ coordinate_data = <<>>
    /\ current_coordinate = <<>>
    /\ coordinate_to_measure = <<>>
    /\ neighborhood = None
    /\ generator_started = FALSE
    /\ done = FALSE
    /\ last_measurements = [is_none |-> TRUE, list |-> <<>>]
    /\ feedback_count = <<>>
    /\ valid_fed = <<>>
    /\ last_step = [kind |-> "none"]

InitRCG ==
    /\ cls = "RunConfigGenerator"
    /\ InitURCGFields
    /\ \E n \in 1 .. MaxModels : models \in ModelSpecs(n) /\ InitRCGFields(n)
    /\ status = "new"
    /\ err = "none"
    /\ triton_env = "unset"
    /\ produced = <<>>
    /\ fed = FALSE

\* ---------------------------------------------------------- RunConfigGenerator
\* run_config_generator.py 27-55: __init__
RCG_init ==
    /\ cls = "RunConfigGenerator"
    /\ status = "new"
    /\ LET r == determine_triton_server_env(models) IN
         IF r.raised
         THEN /\ status' = "failed"
              /\ err' = "TritonModelAnalyzerException"
              /\ UNCHANGED triton_env
         ELSE /\ status' = "ready"
              /\ triton_env' = r.env
              /\ UNCHANGED err
    /\ UNCHANGED <<cls, models, rcg_vars, urcg_vars, produced, fed>>

\* The consumer asks get_configs() for the next RunConfig (61-74). The first request
\* enters _get_next_config and calls _generate_subset(0, default_only=True); a later
\* one resumes the innermost frame after its yield.
RCG_next ==
    /\ cls = "RunConfigGenerator"
    /\ status \in {"ready", "suspended"}
    /\ status' = "running"
    /\ frames' = IF status = "ready" THEN <<Frame(0, FirstDefaultOnly)>> ELSE frames
    /\ fed' = FALSE
    /\ UNCHANGED <<cls, models, urcg_vars, err, triton_env, curr_model_run_configs, curr_results,
                   curr_generators, default_returned, heap, next_id, last_send,
                   last_op, window, supplied, produced>>

\* Mutant: the fresh sub-enumerator is registered for every shallower level too.
register_generator_shallower(index, mrcg) ==
    [i \in Indexes(num_models) |-> IF i <= index THEN mrcg ELSE curr_generators[i]]

\* run_config_generator.py 82: self._curr_generators[index] = mrcg
register_generator(index, mrcg) == [curr_generators EXCEPT ![index] = mrcg]

\* run_config_generator.py 77-82: a fresh sub-enumerator is created and registered
generate_subset_start ==
    /\ cls = "RunConfigGenerator"
    /\ status = "running"
    /\ frames # <<>>
    /\ Top.pc = "start"
    /\ LET index == Top.index
           gens == register_generator(index, next_id)
           fs == SetTop([Top EXCEPT !.mrcg = next_id, !.pc = "for"])
       IN /\ curr_generators' = gens
          /\ frames' = fs
          /\ heap' = Restrict((next_id :> MrcgNew(index, Top.default_only)) @@ heap,
                              Live(fs, gens))
          /\ last_op' = [op |-> "create", index |-> index, mrcg |-> next_id]
    /\ next_id' = next_id + 1
    /\ UNCHANGED <<cls, models, urcg_vars, status, err, triton_env, curr_model_run_configs,
                   curr_results, default_returned, last_send, window, supplied,
                   produced, fed>>

\* run_config_generator.py 84-85: the for loop asks the frame's sub-enumerator for
\* its next configuration and stores it
for_next ==
    /\ cls = "RunConfigGenerator"
    /\ status = "running"
    /\ frames # <<>>
    /\ Top.pc = "for"
    /\ heap[Top.mrcg].pos < MrcgLimit(heap[Top.mrcg])
    /\ LET g == heap[Top.mrcg] IN
         /\ curr_model_run_configs' =
                [curr_model_run_configs EXCEPT ![Top.index] = MrcgConfig(g)]
         /\ heap' = [heap EXCEPT ![Top.mrcg].pos = g.pos + 1]
         /\ last_op' = [op |-> "advance", index |-> Top.index, mrcg |-> Top.mrcg]
    /\ frames' = SetTop([Top EXCEPT !.pc = "body"])
    /\ window' = [window EXCEPT ![Top.index] = Len(produced)]
    /\ supplied' = IF Top.index = 0 THEN <<>> ELSE supplied
    /\ UNCHANGED <<cls, models, urcg_vars, status, err, triton_env, curr_results, curr_generators,
                   default_returned, next_id, last_send, produced, fed>>

\* run_config_generator.py 84: the sub-enumerator is exhausted, the frame returns.
\* An inner frame returns into its caller's "yield from" (90); the outermost one
\* returns into _get_next_config (72-74).
for_exhausted ==
    /\ cls = "RunConfigGenerator"
    /\ status = "running"
    /\ frames # <<>>
    /\ Top.pc = "for"
    /\ heap[Top.mrcg].pos >= MrcgLimit(heap[Top.mrcg])
    /\ last_op' = [op |-> "return", index |-> Top.index, mrcg |-> Top.mrcg]
    /\ IF Len(frames) > 1
       THEN /\ frames' = SubSeq(frames, 1, Len(frames) - 1)
            /\ UNCHANGED <<status, default_returned>>
       ELSE IF ~default_returned
       THEN /\ default_returned' = TRUE
            /\ frames' = <<Frame(0, SecondDefaultOnly)>>
            /\ UNCHANGED status
       ELSE /\ frames' = <<>>
            /\ status' = "exhausted"
            /\ UNCHANGED default_returned
    /\ heap' = Restrict(heap, Live(frames', curr_generators))
    /\ UNCHANGED <<cls, models, urcg_vars, err, triton_env, curr_model_run_configs, curr_results,
                   curr_generators, next_id, last_send, window, supplied, produced, fed>>

\* run_config_generator.py 87-88: at the deepest level a RunConfig is built and yielded
yield_run_config ==
    /\ cls = "RunConfigGenerator"
    /\ status = "running"
    /\ frames # <<>>
    /\ Top.pc = "body"
    /\ IsDeepest(Top.index)
    /\ produced' = Append(produced, make_run_config)
    /\ status' = "suspended"
    /\ frames' = SetTop([Top EXCEPT !.pc = "send"])
    /\ last_op' = [op |-> "yield", index |-> Top.index, mrcg |-> Top.mrcg]
    /\ UNCHANGED <<cls, models, urcg_vars, err, triton_env, curr_model_run_configs, curr_results,
                   curr_generators, default_returned, heap, next_id, last_send,
                   window, supplied, fed>>

\* run_config_generator.py 89-90: at a shallower level the next model is traversed
recurse ==
    /\ cls = "RunConfigGenerator"
    /\ status = "running"
    /\ frames # <<>>
    /\ Top.pc = "body"
    /\ ~IsDeepest(Top.index)
    /\ frames' = Append(SetTop([Top EXCEPT !.pc = "send"]),
                        Frame(Top.index + 1, Top.default_only))
    /\ last_op' = [op |-> "recurse", index |-> Top.index, mrcg |-> Top.mrcg]
    /\ UNCHANGED <<cls, models, urcg_vars, status, err, triton_env, curr_model_run_configs,
                   curr_results, curr_generators, default_returned, heap, next_id,
                   last_send, window, supplied, produced, fed>>

\* Mutant: the buffer is forwarded but not emptied.
cleared_results_kept(index) == curr_results

\* run_config_generator.py 102
cleared_results(index) == [curr_results EXCEPT ![index] = <<>>]

\* Mutant: the sub-enumerator is handed an empty list.
forwarded_results_none(index) == <<>>

\* run_config_generator.py 101: the argument of the sub-enumerator's set_last_results
forwarded_results(index) == curr_results[index]

\* run_config_generator.py 92, 100-102: the depth's buffered results go to the
\* registered sub-enumerator and the buffer is emptied
send_results_to_generator ==
    /\ cls = "RunConfigGenerator"
    /\ status = "running"
    /\ frames # <<>>
    /\ Top.pc = "send"
    /\ LET index == Top.index
           target == curr_generators[index]
       IN /\ heap' = [heap EXCEPT ![target].n_results = heap[target].n_results + 1]
          /\ last_send' = [index |-> index, mrcg |-> target,
                           results |-> forwarded_results(index)]
          /\ curr_results' = cleared_results(index)
          /\ last_op' = [op |-> "send", index |-> index, mrcg |-> target]
    /\ frames' = SetTop([Top EXCEPT !.pc = "for"])
    /\ UNCHANGED <<cls, models, urcg_vars, status, err, triton_env, curr_model_run_configs,
                   curr_generators, default_returned, next_id, window, supplied,
                   produced, fed>>

\* What the consumer may pass for the RunConfig just produced: nothing measured, or
\* one measurement of that run.
Measurements == {<<>>, <<[run |-> Len(produced)]>>}

\* Mutant: only the deepest level's buffer receives the measurements.
extend_results_deepest(measurements) ==
    [index \in Indexes(num_models) |->
        IF index = num_models - 1 THEN curr_results[index] \o measurements
        ELSE curr_results[index]]

\* run_config_generator.py 58-59: every depth's buffer is extended
extend_results(measurements) ==
    [index \in Indexes(num_models) |-> curr_results[index] \o measurements]

\* run_config_generator.py 57-59
RCG_set_last_results ==
    /\ cls = "RunConfigGenerator"
    /\ status = "suspended"
    /\ ~fed
    /\ \E measurements \in Measurements :
         /\ curr_results' = extend_results(measurements)
         /\ supplied' = supplied \o measurements
    /\ fed' = TRUE
    /\ UNCHANGED <<cls, models, urcg_vars, status, err, triton_env, curr_model_run_configs,
                   curr_generators, default_returned, frames, heap, next_id,
                   last_send, last_op, window, produced>>

NextRCG ==
    \/ RCG_init
    \/ RCG_next
    \/ generate_subset_start
    \/ for_next
    \/ for_exhausted
    \/ yield_run_config
    \/ recurse
    \/ send_results_to_generator
    \/ RCG_set_last_results

SpecRCG == InitRCG /\ [][NextRCG]_vars

\* ===================================================== UndirectedRunConfigGenerator
\* ---------------------------------------------------------------- Coordinate
\* One index per model's tunable dimension; None is the empty tuple.
NoCoordinate == <<>>
Coordinates == [1 .. num_models -> 0 .. MaxIndex]

LexLess(a, b) ==
    \E i \in DOMAIN a :
        /\ a[i] < b[i]
        /\ \A j \in DOMAIN a : j < i => a[j] = b[j]

\* The first coordinate of a non-empty set, in lexicographic order.
First(S) == CHOOSE c \in S : \A d \in S : c = d \/ LexLess(c, d)

RECURSIVE SumOver(_, _)
SumOver(f, S) ==
    IF S = {} THEN 0
    ELSE LET x == CHOOSE x \in S : TRUE IN f[x] + SumOver(f, S \ {x})

\* Squared Euclidean distance.
Distance2(a, b) ==
    SumOver([i \in DOMAIN a |-> (a[i] - b[i]) * (a[i] - b[i])], DOMAIN a)

\* -------------------------------------------------------------- SearchConfig
Radius == 1
StepMagnitude == 1
MinInitialized == 2
get_min_indexes == [i \in 1 .. num_models |-> 0]
get_neighborhood_config(radius) == [radius |-> radius, min_initialized |-> MinInitialized]

\* undirected_run_config_generator.py 72-73
radius_offset == 0
magnitude_offset == 0
\* undirected_run_config_generator.py 192-193
get_radius == Radius + radius_offset
\* undirected_run_config_generator.py 195-196
get_magnitude == StepMagnitude + magnitude_offset

\* Dimension lookup: the concrete parameter values of model `key` at a coordinate.
get_values_for_coordinate(coordinate, key) ==
    [max_batch_size |-> 2 ^ coordinate[key + 1],
     instance_count |-> coordinate[key + 1] + 1,
     concurrency |-> 2 * (coordinate[key + 1] + 1)]

\* ------------------------------------------------------------ CoordinateData
CoordinateData == [c \in Coordinates |-> [visit_count |-> 0, throughput |-> <<>>]]
get_throughput(cd, c) == cd[c].throughput
get_visit_count(cd, c) == cd[c].visit_count
increment_visit_count(cd, c) == [cd EXCEPT ![c].visit_count = @ + 1]
set_throughput(cd, c, throughput) == [cd EXCEPT ![c].throughput = <<throughput>>]

\* -------------------------------------------------------------- Neighborhood
Neighborhood(config, home) ==
    [home |-> home, radius |-> config.radius, min_initialized |-> config.min_initialized]

\* The coordinates of the space within the radius of the home coordinate.
NeighborhoodCoordinates(nb) ==
    {c \in Coordinates : Distance2(c, nb.home) <= nb.radius * nb.radius}

Measured(nb, cd) == {c \in NeighborhoodCoordinates(nb) : get_throughput(cd, c) # <<>>}
Unvisited(nb, cd) == {c \in NeighborhoodCoordinates(nb) : get_visit_count(cd, c) = 0}

enough_coordinates_initialized(nb, cd) ==
    Cardinality(Measured(nb, cd)) >= nb.min_initialized

pick_coordinate_to_initialize(nb, cd) ==
    IF Unvisited(nb, cd) = {} THEN NoCoordinate ELSE First(Unvisited(nb, cd))

get_nearest_unvisited_neighbor(nb, cd, coordinate_in) ==
    LET U == Unvisited(nb, cd)
        nearest == {c \in U : \A d \in U :
                       Distance2(c, coordinate_in) <= Distance2(d, coordinate_in)}
    IN IF U = {} THEN NoCoordinate ELSE First(nearest)

Sign(x) == IF x > 0 THEN 1 ELSE IF x < 0 THEN -1 ELSE 0
Clip(x) == IF x < 0 THEN 0 ELSE IF x > MaxIndex THEN MaxIndex ELSE x

\* The weighted step: per dimension, the direction from the plain centre of the
\* measured coordinates to their throughput-weighted centre, times the magnitude,
\* clipped to the space.
calculate_new_coordinate(nb, cd, magnitude) ==
    LET M == Measured(nb, cd)
        n == Cardinality(M)
        t == [c \in M |-> get_throughput(cd, c)[1]]
        pull(i) == n * SumOver([c \in M |-> t[c] * c[i]], M)
                   - SumOver(t, M) * SumOver([c \in M |-> c[i]], M)
    IN [i \in 1 .. num_models |-> Clip(nb.home[i] + Sign(pull(i)) * magnitude)]

\* --------------------------------------------------------------- the driver
\* Mutant: the search starts from the largest indexes.
get_starting_coordinate_max == [i \in 1 .. num_models |-> MaxIndex]

\* undirected_run_config_generator.py 183-185
get_starting_coordinate == get_min_indexes

\* undirected_run_config_generator.py 198-261: the RunConfig of a coordinate
get_next_run_config(coordinate) ==
    [env |-> triton_env,
     mrcs |-> [i \in Indexes(num_models) |->
                  [model |-> i] @@ get_values_for_coordinate(coordinate, i)]]

\* The coordinate a produced RunConfig stands for.
CoordinateOf(run_config) ==
    [i \in 1 .. num_models |-> run_config.mrcs[i - 1].instance_count - 1]

\* undirected_run_config_generator.py 140-141: the stored throughput of the
\* coordinate being measured
get_last_results == get_throughput(coordinate_data, coordinate_to_measure)

\* Mutant: a coordinate counts as explored after one visit.
determine_if_done_once(new_coordinate) ==
    \/ done
    \/ new_coordinate = current_coordinate
    \/ get_visit_count(coordinate_data, new_coordinate) >= 1

\* Mutant: only reaching the centre again ends the search.
determine_if_done_centeronly(new_coordinate) ==
    \/ done
    \/ new_coordinate = current_coordinate

\* undirected_run_config_generator.py 160-168: the value of self._done afterwards
determine_if_done(new_coordinate) ==
    \/ done
    \/ new_coordinate = current_coordinate
    \/ get_visit_count(coordinate_data, new_coordinate) >= 2

\* Mutant: the directed step keeps the neighbourhood it had.
recreate_neighborhood_stale(center) == neighborhood

\* undirected_run_config_generator.py 170-176
recreate_neighborhood(center) == Neighborhood(get_neighborhood_config(get_radius), center)

\* What a measurement argument is: None, or a list of measurements (<<t>>) and
\* None entries (<<>>).
NoMeasurements == [is_none |-> TRUE, list |-> <<>>]
MeasurementList(l) == [is_none |-> FALSE, list |-> l]
MeasurementInputs ==
    {NoMeasurements, MeasurementList(<<>>), MeasurementList(<< <<>> >>),
     MeasurementList(<< <<>>, <<1>> >>), MeasurementList(<< <<1>>, <<1>> >>)}
    \cup {MeasurementList(<< <<t>> >>) : t \in 1 .. MaxThroughput}

\* Absent feedback: None, or a list whose first entry is None.
IsAbsent(m) == m.is_none \/ (m.list # <<>> /\ m.list[1] = <<>>)
IsValid(m) == ~m.is_none /\ m.list # <<>> /\ m.list[1] # <<>>

InitURCG ==
    /\ cls = "UndirectedRunConfigGenerator"
    /\ \E n \in 1 .. MaxModels :
          /\ models \in [Indexes(n) -> [env : Envs, num_configs : {1}]]
          /\ InitRCGFields(n)
    /\ InitURCGFields
    /\ status = "new"
    /\ err = "none"
    /\ triton_env = "unset"
    /\ produced = <<>>
    /\ fed = FALSE

\* undirected_run_config_generator.py 38-80: __init__
URCG_init ==
    /\ cls = "UndirectedRunConfigGenerator"
    /\ status = "new"
    /\ LET r == determine_triton_server_env(models) IN
         IF r.raised
         THEN /\ status' = "failed"
              /\ err' = "TritonModelAnalyzerException"
              /\ UNCHANGED <<triton_env, urcg_vars>>
         ELSE /\ status' = "ready"
              /\ triton_env' = r.env
              /\ coordinate_data' = CoordinateData
              /\ current_coordinate' = get_starting_coordinate
              /\ coordinate_to_measure' = get_starting_coordinate
              /\ neighborhood' = Neighborhood(get_neighborhood_config(Radius),
                                              get_starting_coordinate)
              /\ generator_started' = FALSE
              /\ done' = FALSE
              /\ feedback_count' = [c \in Coordinates |-> 0]
              /\ valid_fed' = [c \in Coordinates |-> FALSE]
              /\ UNCHANGED <<err, last_measurements, last_step>>
    /\ UNCHANGED <<cls, models, rcg_vars, produced, fed>>

\* undirected_run_config_generator.py 95-96: the RunConfig of the coordinate to
\* measure is built and yielded; a None coordinate has no dimension values.
Produce(coordinate) ==
    IF coordinate = NoCoordinate
    THEN /\ status' = "error"
         /\ err' = "TypeError"
         /\ UNCHANGED produced
    ELSE /\ status' = "suspended"
         /\ produced' = Append(produced, get_next_run_config(coordinate))
         /\ UNCHANGED err

\* undirected_run_config_generator.py 93-96: the first request
URCG_start ==
    /\ cls = "UndirectedRunConfigGenerator"
    /\ status = "ready"
    /\ generator_started' = TRUE
    /\ Produce(coordinate_to_measure)
    /\ fed' = FALSE
    /\ last_step' = [kind |-> "start"]
    /\ UNCHANGED <<cls, models, triton_env, rcg_vars, coordinate_data, current_coordinate,
                   coordinate_to_measure, neighborhood, done, last_measurements,
                   feedback_count, valid_fed>>

\* What _step starts from, kept for the properties.
StepRecord(kind, new_coordinate) ==
    [kind |-> kind,
     absent |-> IsAbsent(last_measurements),
     measured |-> coordinate_to_measure,
     center |-> current_coordinate,
     neighborhood |-> neighborhood,
     done |-> done,
     new_coordinate |-> new_coordinate,
     new_visit_count |-> IF new_coordinate = NoCoordinate THEN 0
                         ELSE get_visit_count(coordinate_data, new_coordinate),
     nearest |-> get_nearest_unvisited_neighbor(neighborhood, coordinate_data,
                                                coordinate_to_measure)]

\* A later request resumes the generator after its yield: _step (97, 99-114), then
\* the next RunConfig (95-96). The consumer has fed the last RunConfig back.
Resumable ==
    /\ cls = "UndirectedRunConfigGenerator"
    /\ status = "suspended"
    /\ fed
    /\ Len(produced) < MaxProduced

\* undirected_run_config_generator.py 104-105, 143-147
URCG_next_invalid ==
    /\ Resumable
    /\ get_last_results = <<>>
    /\ LET next == get_nearest_unvisited_neighbor(neighborhood, coordinate_data,
                                                  coordinate_to_measure)
       IN /\ coordinate_to_measure' = next
          /\ done' = IF next = NoCoordinate THEN TRUE ELSE done
          /\ last_step' = StepRecord("invalid", next)
          /\ Produce(next)
    /\ fed' = FALSE
    /\ UNCHANGED <<cls, models, triton_env, rcg_vars, coordinate_data, current_coordinate,
                   neighborhood, generator_started, last_measurements, feedback_count,
                   valid_fed>>

\* undirected_run_config_generator.py 107-108, 149-158
URCG_next_take_step ==
    /\ Resumable
    /\ get_last_results # <<>>
    /\ enough_coordinates_initialized(neighborhood, coordinate_data)
    /\ LET new_coordinate == calculate_new_coordinate(neighborhood, coordinate_data,
                                                      get_magnitude)
       IN /\ done' = determine_if_done(new_coordinate)
          /\ current_coordinate' = new_coordinate
          /\ coordinate_to_measure' = new_coordinate
          /\ neighborhood' = recreate_neighborhood(new_coordinate)
          /\ last_step' = StepRecord("take_step", new_coordinate)
          /\ Produce(new_coordinate)
    /\ fed' = FALSE
    /\ UNCHANGED <<cls, models, triton_env, rcg_vars, coordinate_data, generator_started,
                   last_measurements, feedback_count, valid_fed>>

\* Mutant: the neighbour picked for sampling also becomes the centre.
URCG_pick_coordinate_to_initialize_recenter ==
    LET next == pick_coordinate_to_initialize(neighborhood, coordinate_data)
    IN [coordinate_to_measure |-> next,
        current_coordinate |-> IF next = NoCoordinate THEN current_coordinate ELSE next,
        neighborhood |-> IF next = NoCoordinate THEN neighborhood
                         ELSE recreate_neighborhood(next)]

\* undirected_run_config_generator.py 178-181: what the driver's
\* _pick_coordinate_to_initialize leaves in its three position fields
URCG_pick_coordinate_to_initialize ==
    [coordinate_to_measure |-> pick_coordinate_to_initialize(neighborhood, coordinate_data),
     current_coordinate |-> current_coordinate,
     neighborhood |-> neighborhood]

\* undirected_run_config_generator.py 109-110, 178-181
URCG_next_pick ==
    /\ Resumable
    /\ get_last_results # <<>>
    /\ ~enough_coordinates_initialized(neighborhood, coordinate_data)
    /\ LET picked == URCG_pick_coordinate_to_initialize
           next == picked.coordinate_to_measure
       IN /\ coordinate_to_measure' = next
          /\ current_coordinate' = picked.current_coordinate
          /\ neighborhood' = picked.neighborhood
          /\ done' = IF next = NoCoordinate THEN TRUE ELSE done
          /\ last_step' = StepRecord("pick", next)
          /\ Produce(next)
    /\ fed' = FALSE
    /\ UNCHANGED <<cls, models, triton_env, rcg_vars, coordinate_data,
                   generator_started, last_measurements, feedback_count, valid_fed>>

\* Mutant: a failed run is not counted as a visit.
visited_if_valid(cd, c, measurements) ==
    IF IsValid(measurements) THEN increment_visit_count(cd, c) ELSE cd

\* undirected_run_config_generator.py 126
visited(cd, c, measurements) == increment_visit_count(cd, c)

\* Mutant: the throughput is recorded for the centre instead.
recorded_at_center(cd, throughput) == set_throughput(cd, current_coordinate, throughput)

\* undirected_run_config_generator.py 131-135
recorded(cd, throughput) == set_throughput(cd, coordinate_to_measure, throughput)

\* undirected_run_config_generator.py 116-138
URCG_set_last_results ==
    /\ cls = "UndirectedRunConfigGenerator"
    /\ status = "suspended"
    /\ ~fed
    /\ \E measurements \in MeasurementInputs :
         LET cd == visited(coordinate_data, coordinate_to_measure, measurements)
             target == CoordinateOf(produced[Len(produced)])
         IN /\ last_measurements' = measurements
            /\ feedback_count' = [feedback_count EXCEPT ![target] = @ + 1]
            /\ valid_fed' = IF IsValid(measurements)
                            THEN [valid_fed EXCEPT ![target] = TRUE] ELSE valid_fed
            /\ IF measurements.is_none
               THEN coordinate_data' = cd /\ UNCHANGED <<status, err>>
               ELSE IF measurements.list = <<>>
               THEN coordinate_data' = cd /\ status' = "error" /\ err' = "IndexError"
               ELSE IF measurements.list[1] = <<>>
               THEN coordinate_data' = cd /\ UNCHANGED <<status, err>>
               ELSE IF Len(measurements.list) # 1
               THEN coordinate_data' = cd /\ status' = "error" /\ err' = "AssertionError"
               ELSE /\ coordinate_data' = recorded(cd, measurements.list[1][1])
                    /\ UNCHANGED <<status, err>>
    /\ fed' = TRUE
    /\ UNCHANGED <<cls, models, triton_env, rcg_vars, current_coordinate,
                   coordinate_to_measure, neighborhood, generator_started, done,
                   last_step, produced>>

NextURCG ==
    \/ URCG_init
    \/ URCG_start
    \/ URCG_next_invalid
    \/ URCG_next_take_step
    \/ URCG_next_pick
    \/ URCG_set_last_results

SpecURCG == InitURCG /\ [][NextURCG]_vars

Init == InitRCG \/ InitURCG
Next == NextRCG \/ NextURCG
Spec == Init /\ [][Next]_vars

\* ================================================================ claims
RECURSIVE ProductFrom(_)
\* c_i * c_{i+1} * ... * c_{N-1}
ProductFrom(i) ==
    IF i >= num_models THEN 1 ELSE models[i].num_configs * ProductFrom(i + 1)

AllDefault ==
    [env |-> models[0].env,
     mrcs |-> [i \in Indexes(num_models) |->
                  [model |-> i, is_default |-> TRUE, choice |-> 0]]]

\* The k-th (0-based) combination in lexicographic order, model 0 slowest (there
\* is none when some model has no configuration).
Lexicographic(k) ==
    [env |-> models[0].env,
     mrcs |-> [i \in Indexes(num_models) |->
                  [model |-> i, is_default |-> FALSE,
                   choice |-> IF models[i].num_configs = 0 \/ ProductFrom(i + 1) = 0
                              THEN -1
                              ELSE (k \div ProductFrom(i + 1)) % models[i].num_configs]]]

Mismatch == \E i \in DOMAIN models : models[i].env # models[0].env

\* C1: construction succeeds exactly when every model's server environment equals
\* the first one's, and then the common environment is the generator's; with a
\* mismatch construction fails with the fatal error and nothing is ever produced.
C1_ServerEnvironment ==
    /\ status # "new" => (status = "failed" <=> Mismatch)
    /\ status = "failed" => (err = "TritonModelAnalyzerException" /\ produced = <<>>)
    /\ status \notin {"new", "failed"} =>
          \A i \in DOMAIN models : models[i].env = triton_env
    /\ Mismatch => produced = <<>>

C1_Witness ==
    /\ status = "failed"
    /\ num_models > 1
    /\ cls = "UndirectedRunConfigGenerator"

\* C2: pulled to exhaustion, get_configs has produced exactly
\* 1 + c_0 * ... * c_{N-1} RunConfigs, and never more than that before.
C2_TotalCount ==
    cls = "RunConfigGenerator" =>
        /\ Len(produced) <= 1 + ProductFrom(0)
        /\ status = "exhausted" => Len(produced) = 1 + ProductFrom(0)

C2_Witness ==
    /\ cls = "RunConfigGenerator"
    /\ status = "exhausted"
    /\ num_models > 1
    /\ Len(produced) > 4

\* C3: the first RunConfig is the all-default combination and it is the only one
\* of the default-only phase: every later RunConfig is an unrestricted one.
C3_DefaultFirst ==
    cls = "RunConfigGenerator" =>
        /\ produced # <<>> => produced[1] = AllDefault
        /\ \A k \in 2 .. Len(produced) : \A i \in Indexes(num_models) :
              /\ produced[k].mrcs[i] # None
              /\ ~produced[k].mrcs[i].is_default
        /\ (produced # <<>> /\ ~default_returned) => Len(produced) = 1

C3_Witness ==
    /\ cls = "RunConfigGenerator"
    /\ Len(produced) > 1
    /\ num_models > 1

\* C4: the unrestricted phase produces the combinations in lexicographic order of
\* the per-model choice indices, model 0 slowest: the k-th one produced is the k-th
\* of that order, so none is repeated or skipped, and at exhaustion all were produced.
C4_DepthFirstOrder ==
    cls = "RunConfigGenerator" =>
        /\ \A k \in 2 .. Len(produced) : produced[k] = Lexicographic(k - 2)
        /\ status = "exhausted" => Len(produced) - 1 = ProductFrom(0)

C4_Witness ==
    /\ cls = "RunConfigGenerator"
    /\ num_models = 2
    /\ Len(produced) = 5
    /\ produced[2].mrcs = (0 :> [model |-> 0, is_default |-> FALSE, choice |-> 0]
                        @@ 1 :> [model |-> 1, is_default |-> FALSE, choice |-> 0])
    /\ produced[3].mrcs[0].choice = 0 /\ produced[3].mrcs[1].choice = 1
    /\ produced[4].mrcs[0].choice = 1 /\ produced[4].mrcs[1].choice = 0
    /\ produced[5].mrcs[0].choice = 1 /\ produced[5].mrcs[1].choice = 1

\* C5 as stated: measurements are never forwarded to a sub-enumerator of a depth
\* other than the deepest one.
C5_OnlyDeepest ==
    (cls = "RunConfigGenerator" /\ last_send.index >= 0 /\ last_send.index # num_models - 1)
        => last_send.results = <<>>

SuppliedSince(run) == SelectSeq(supplied, LAMBDA m : m.run > run)

\* C5 amended: every depth's sub-enumerator receives, when that depth's results
\* are forwarded, exactly the measurements supplied since that depth took its
\* current choice; for the deepest depth that is the feedback of the RunConfig
\* just produced.
C5_EveryDepth ==
    (cls = "RunConfigGenerator" /\ last_op.op = "send") =>
        /\ last_send.index = last_op.index
        /\ last_send.results = SuppliedSince(window[last_send.index])
        /\ last_send.index = num_models - 1 =>
              last_send.results = SuppliedSince(Len(produced) - 1)

C5_Witness ==
    /\ cls = "RunConfigGenerator"
    /\ last_op.op = "send"
    /\ num_models > 1
    /\ last_send.index = 0
    /\ Len(last_send.results) > 1

\* C6: whenever a sub-enumerator is about to be asked for its next choice after its
\* first, the statement executed just before was the forwarding of that depth's
\* buffer to that sub-enumerator, and the buffer is empty.
C6_FeedbackBeforeAdvance ==
    (cls = "RunConfigGenerator" /\ status = "running" /\ frames # <<>>
        /\ Top.pc = "for" /\ heap[Top.mrcg].pos >= 1) =>
        /\ last_op = [op |-> "send", index |-> Top.index, mrcg |-> Top.mrcg]
        /\ last_send.index = Top.index
        /\ curr_results[Top.index] = <<>>

C6_Witness ==
    /\ cls = "RunConfigGenerator"
    /\ status = "running" /\ frames # <<>>
    /\ Top.pc = "for" /\ heap[Top.mrcg].pos >= 1
    /\ Top.index = 0 /\ num_models > 1
    /\ last_send.results # <<>>

Constructed == cls = "UndirectedRunConfigGenerator" /\ status \notin {"new", "failed"}

\* C7: the visit count of every coordinate equals the number of feedbacks received
\* for the RunConfigs produced for it, valid or absent: each feedback adds one to
\* the coordinate of the RunConfig just produced and to no other.
C7_VisitCount ==
    Constructed =>
        \A c \in Coordinates : get_visit_count(coordinate_data, c) = feedback_count[c]

C7_Witness ==
    /\ Constructed
    /\ fed
    /\ IsAbsent(last_measurements)
    /\ get_visit_count(coordinate_data, coordinate_to_measure) = 2
    /\ \E c \in Coordinates :
          c # coordinate_to_measure /\ get_visit_count(coordinate_data, c) = 1

C8_ThroughputOnlyIfMeasured ==
    Constructed =>
        \A c \in Coordinates :
            get_throughput(coordinate_data, c) # <<>> =>
                (valid_fed[c] /\ get_visit_count(coordinate_data, c) >= 1)

C8_AbsentKeepsThroughput ==
    (Constructed /\ ~fed /\ fed' /\ IsAbsent(last_measurements')) =>
        \A c \in Coordinates :
            get_throughput(coordinate_data', c) = get_throughput(coordinate_data, c)

\* C8: a coordinate has a recorded throughput only if a valid measurement was fed
\* back for it, so only if it was visited; absent feedback changes no throughput.
C8_Throughput == [](C8_ThroughputOnlyIfMeasured) /\ [][C8_AbsentKeepsThroughput]_vars

C8_Witness ==
    /\ Constructed
    /\ fed
    /\ IsAbsent(last_measurements)
    /\ get_throughput(coordinate_data, coordinate_to_measure) # <<>>
    /\ \E c \in Coordinates : get_visit_count(coordinate_data, c) >= 1
                              /\ get_throughput(coordinate_data, c) = <<>>

Stepped == Constructed /\ last_step.kind \in {"invalid", "take_step", "pick"}

\* C9 as stated: after absent feedback the step falls back to the nearest unvisited
\* neighbour of the coordinate just measured and leaves the centre and the
\* neighbourhood alone, whatever was recorded for that coordinate before. (The
\* step with no unvisited neighbour left is the subject of another claim.)
C9_AbsentFallsBack ==
    (Stepped /\ last_step.absent /\ last_step.nearest # NoCoordinate) =>
        /\ coordinate_to_measure = last_step.nearest
        /\ current_coordinate = last_step.center
        /\ neighborhood = last_step.neighborhood
        /\ err # "TypeError"

\* C10: a directed step of a driver that was not terminated terminates it exactly
\* when the new coordinate is the centre it stepped from or has been visited twice
\* already.
C10_TerminatesIff ==
    (Constructed /\ last_step.kind = "take_step" /\ ~last_step.done) =>
        (done <=> \/ last_step.new_coordinate = last_step.center
                  \/ last_step.new_visit_count >= 2)

C10_Witness ==
    /\ Constructed
    /\ last_step.kind = "take_step"
    /\ ~last_step.done
    /\ done
    /\ last_step.new_coordinate # last_step.center
    /\ last_step.new_visit_count >= 2

\* C11 as stated: when a step leaves no coordinate to measure, get_configs ends:
\* the sequence is exhausted, no RunConfig is built for the missing coordinate and
\* no error is raised.
C11_EndsWithoutCoordinate ==
    (Stepped /\ coordinate_to_measure = NoCoordinate) =>
        (status = "exhausted" /\ err = "none")

\* C12 as stated (its second half): a step that leaves the driver terminated
\* produces no further RunConfig.
C12_TerminatedProducesNothing ==
    [][(Constructed /\ done') => produced' = produced]_vars

\* C13 as stated: once the feedback that raised a visit count to 2 has been
\* processed by a step, the driver is terminated (taken here for valid feedback,
\* where the fallback for absent feedback plays no part).
C13_SecondVisitTerminates ==
    (Constructed /\ status = "suspended" /\ ~fed /\ Stepped /\ ~last_step.absent
        /\ get_visit_count(coordinate_data, last_step.measured) >= 2
        /\ last_step.measured # coordinate_to_measure) => done

\* C13 amended: a directed step whose new coordinate has already been visited
\* twice leaves the driver terminated.
C13_RevisitedTargetTerminates ==
    (Constructed /\ last_step.kind = "take_step" /\ last_step.new_visit_count >= 2)
        => done

C13_Witness ==
    /\ Constructed
    /\ last_step.kind = "take_step"
    /\ last_step.new_visit_count = 2
    /\ status = "suspended"
    /\ ~fed
    /\ done

\* The per-model minimum index vector.
MinimumCoordinate == [i \in 1 .. num_models |-> 0]

\* C14: after construction the centre, the coordinate to measure and the
\* neighbourhood's centre are the minimum index vector, the driver is not
\* terminated and nothing is visited or measured; the first RunConfig produced is
\* the one of that coordinate.
C14_StartsAtMinimum ==
    cls = "UndirectedRunConfigGenerator" =>
        /\ status = "ready" =>
              /\ current_coordinate = MinimumCoordinate
              /\ coordinate_to_measure = MinimumCoordinate
              /\ neighborhood.home = MinimumCoordinate
              /\ ~done
              /\ \A c \in Coordinates :
                    /\ get_visit_count(coordinate_data, c) = 0
                    /\ get_throughput(coordinate_data, c) = <<>>
        /\ produced # <<>> =>
              /\ CoordinateOf(produced[1]) = MinimumCoordinate
              /\ \A i \in Indexes(num_models) :
                    produced[1].mrcs[i] = [model |-> i, max_batch_size |-> 1,
                                           instance_count |-> 1, concurrency |-> 2]

C14_Witness ==
    /\ cls = "UndirectedRunConfigGenerator"
    /\ Len(produced) = 1
    /\ ~fed
    /\ num_models > 1
    /\ ~done

\* The generator is resumed after feedback: _step runs.
StepTaken == Constructed /\ status = "suspended" /\ fed /\ ~fed'

\* C15: a step after valid feedback, with too few measured neighbours, replaces
\* the coordinate to measure by the neighbourhood's pick and changes neither the
\* centre, nor the neighbourhood, nor any visit count or throughput.
C15_SamplingStepFrame ==
    [][(StepTaken /\ IsValid(last_measurements)
          /\ ~enough_coordinates_initialized(neighborhood, coordinate_data)) =>
        /\ coordinate_to_measure' =
              pick_coordinate_to_initialize(neighborhood, coordinate_data)
        /\ current_coordinate' = current_coordinate
        /\ neighborhood' = neighborhood
        /\ coordinate_data' = coordinate_data]_vars

C15_Witness ==
    /\ Constructed
    /\ last_step.kind = "pick"
    /\ ~last_step.absent
    /\ coordinate_to_measure # NoCoordinate
    /\ coordinate_to_measure # current_coordinate
    /\ num_models > 1
    /\ ~fed

\* C16 as stated: a directed step that terminates the search leaves the centre and
\* the neighbourhood as they were.
C16_TerminatingStepKeepsCenter ==
    (Constructed /\ last_step.kind = "take_step" /\ ~last_step.done /\ done) =>
        /\ current_coordinate = last_step.center
        /\ neighborhood = last_step.neighborhood

\* C17 as stated: feedback never makes set_last_results raise, whatever the value
\* (absent, or a list of any length).
C17_FeedbackIsTotal ==
    (Constructed /\ fed) => (status # "error" /\ err \notin {"IndexError", "AssertionError"})

\* set_last_results is called while a RunConfig is outstanding.
FeedbackDelivered == status = "suspended" /\ ~fed /\ fed'

\* C18: delivering feedback to a suspended generator changes only feedback state.
\* RunConfigGenerator keeps its per-model choices, sub-enumerators, their
\* positions, the phase flag and the suspended generator frames; the undirected
\* generator keeps the centre, the coordinate to measure, the neighbourhood and the
\* terminated flag, and the data of every coordinate other than the one produced.
C18_FeedbackFrame ==
    [][FeedbackDelivered =>
        /\ cls = "RunConfigGenerator" =>
              /\ curr_model_run_configs' = curr_model_run_configs
              /\ curr_generators' = curr_generators
              /\ default_returned' = default_returned
              /\ frames' = frames
              /\ heap' = heap
              /\ \A i \in Indexes(num_models) :
                    \E added \in Measurements : curr_results'[i] = curr_results[i] \o added
        /\ cls = "UndirectedRunConfigGenerator" =>
              /\ current_coordinate' = current_coordinate
              /\ coordinate_to_measure' = coordinate_to_measure
              /\ neighborhood' = neighborhood
              /\ done' = done
              /\ \A c \in Coordinates \ {CoordinateOf(produced[Len(produced)])} :
                    coordinate_data'[c] = coordinate_data[c]]_vars

C18_Witness ==
    /\ Constructed
    /\ status = "suspended"
    /\ fed
    /\ IsValid(last_measurements)
    /\ coordinate_to_measure # current_coordinate
    /\ get_throughput(coordinate_data, coordinate_to_measure) = last_measurements.list[1]
    /\ get_throughput(coordinate_data, current_coordinate) # last_measurements.list[1]
    /\ num_models > 1

\* C19: a RunConfig is produced only by the depth N-1 frame, with all N frames of
\* the current phase on the stack; it holds exactly N model run configs, the i-th
\* being the configuration the depth-i sub-enumerator of this phase last yielded.
C19_CompleteRunConfig ==
    (cls = "RunConfigGenerator" /\ status = "suspended") =>
        LET run_config == produced[Len(produced)] IN
        /\ last_op.op = "yield"
        /\ last_op.index = num_models - 1
        /\ Len(frames) = num_models
        /\ DOMAIN run_config.mrcs = Indexes(num_models)
        /\ \A i \in Indexes(num_models) :
              /\ frames[i + 1].index = i
              /\ frames[i + 1].default_only = ~default_returned
              /\ frames[i + 1].mrcg = curr_generators[i]
              /\ heap[curr_generators[i]].pos >= 1
              /\ run_config.mrcs[i] =
                    [model |-> i,
                     is_default |-> frames[i + 1].default_only,
                     choice |-> heap[curr_generators[i]].pos - 1]

C19_Witness ==
    /\ cls = "RunConfigGenerator"
    /\ status = "suspended"
    /\ num_models = 2
    /\ default_returned
    /\ produced[Len(produced)].mrcs[0].choice >= 1
    /\ produced[Len(produced)].mrcs[1].choice = 0

AllBuffersEmpty == \A i \in Indexes(num_models) : curr_results[i] = <<>>

\* The deepest frame stands right after its yield: a RunConfig is outstanding or
\* the generator has just been resumed.
AfterYield ==
    /\ cls = "RunConfigGenerator"
    /\ status \in {"suspended", "running"}
    /\ frames # <<>>
    /\ Top.pc = "send"
    /\ Top.index = num_models - 1

\* C20: the deepest buffer holds exactly the measurements supplied for the
\* outstanding RunConfig, the first step after the resumption hands exactly them
\* to the deepest sub-enumerator and empties the buffer, and every buffer is empty
\* when the default-only traversal has ended and when the sequence is exhausted.
C20_NoFeedbackLeft ==
    /\ [](AfterYield => curr_results[num_models - 1] = SuppliedSince(Len(produced) - 1))
    /\ []((cls = "RunConfigGenerator" /\ default_returned /\ Len(frames) = 1
              /\ Top.pc = "start") => AllBuffersEmpty)
    /\ []((cls = "RunConfigGenerator" /\ status = "exhausted") => AllBuffersEmpty)
    /\ [][(AfterYield /\ status = "running") =>
            /\ last_send' = [index |-> num_models - 1,
                             mrcg |-> curr_generators[num_models - 1],
                             results |-> SuppliedSince(Len(produced) - 1)]
            /\ curr_results'[num_models - 1] = <<>>]_vars

C20_Witness ==
    /\ cls = "RunConfigGenerator"
    /\ status = "exhausted"
    /\ num_models > 1
    /\ AllBuffersEmpty
    /\ last_send.results # <<>>
    /\ Len(produced) > 2

\* C21: every frame that has created its sub-enumerator finds that same instance
\* registered for its depth, distinct from those of the other depths, and a
\* forwarding at depth d goes to the instance the depth-d frame iterates, the one
\* that yielded the depth-d choice in effect.
C21_RegisteredIsYielder ==
    cls = "RunConfigGenerator" =>
        /\ \A k \in 1 .. Len(frames) :
              /\ frames[k].index = k - 1
              /\ frames[k].pc # "start" =>
                    /\ curr_generators[k - 1] = frames[k].mrcg
                    /\ frames[k].mrcg \in DOMAIN heap
                    /\ heap[frames[k].mrcg].model = k - 1
                    /\ \A j \in 1 .. k - 1 : frames[j].mrcg # frames[k].mrcg
        /\ last_op.op = "send" =>
              /\ frames # <<>>
              /\ Top.index = last_send.index
              /\ last_send.mrcg = Top.mrcg
              /\ heap[Top.mrcg].pos >= 1
              /\ curr_model_run_configs[last_send.index] =
                    [model |-> last_send.index,
                     is_default |-> heap[Top.mrcg].default_only,
                     choice |-> heap[Top.mrcg].pos - 1]

C21_Witness ==
    /\ cls = "RunConfigGenerator"
    /\ last_op.op = "send"
    /\ num_models = 2
    /\ last_send.index = 0
    /\ heap[last_send.mrcg].pos = 2
    /\ curr_generators[1] > curr_generators[0] + 1

\* The neighbourhood the driver would build around a centre (170-176).
NeighborhoodAround(center) ==
    [home |-> center, radius |-> Radius + radius_offset, min_initialized |-> MinInitialized]

====
